---- MODULE Spec2Model ----
(***************************************************************************)
(* Model of the reading-comprehension quiz application: the grading        *)
(* functions getScore and checkAnswerCorrectness, the record store kept by *)
(* the App component (saveAnswers, getAttemptCount, clearAllAnswers) and   *)
(* its copy in localStorage, the recency categories of RecordsPage, and    *)
(* the session of QuizPage.                                                *)
(*                                                                         *)
(* A JavaScript string is a sequence of one-character strings.  A value of *)
(* type UserAnswer | undefined, or of type Question['a'], is a tagged      *)
(* record: [kind |-> "string", v |-> s], [kind |-> "array", v |-> xs] with *)
(* xs a sequence of strings, or [kind |-> "undefined"].                    *)
(***************************************************************************)
EXTENDS Integers, Sequences, FiniteSets, TLC

\* ------------------------------------------------------------------ bounds

\* Longest string drawn as a free-text answer or accepted answer.
MaxStrLen == 2
\* Longest string drawn as one entry of a string array.
MaxItemLen == 1
\* Longest string array (blanks of a fill-in-the-blank, alternatives).
MaxBlanks == 2
\* Most questions of a sample excerpt.
MaxQuestions == 2
\* Most saveAnswers calls of one run.
MaxAttempts == 3
\* Latest instant of the clock behind Date.now().
MaxClock == 2
\* Longest study time of an attempt, in seconds.
MaxStudyTime == 2

\* ----------------------------------------------------------------- strings

\* The characters strings are drawn from: one whitespace, one other.
Whitespace == {" "}
Chars == Whitespace \cup {"a"}

StringsUpTo(n) == UNION {[1..k -> Chars] : k \in 0..n}

\* String.prototype.trim: drops the leading and the trailing whitespace.
RECURSIVE TrimStart(_)
TrimStart(s) ==
    IF s # <<>> /\ Head(s) \in Whitespace THEN TrimStart(Tail(s)) ELSE s

RECURSIVE TrimEnd(_)
TrimEnd(s) ==
    IF s # <<>> /\ s[Len(s)] \in Whitespace
    THEN TrimEnd(SubSeq(s, 1, Len(s) - 1))
    ELSE s

Trim(s) == TrimEnd(TrimStart(s))

\* ------------------------------------------------------------------ values

Str(s) == [kind |-> "string", v |-> s]
Arr(xs) == [kind |-> "array", v |-> xs]
Undefined == [kind |-> "undefined"]

\* typeof x === 'string'
IsString(x) == x.kind = "string"
\* Array.isArray(x)
IsArray(x) == x.kind = "array"
\* x === undefined
IsUndefined(x) == x.kind = "undefined"

\* x === y on answers: two strings are equal by content; an array is equal
\* only to itself, and a submitted array is never the question's own array.
StrictEquals(x, y) == IsString(x) /\ IsString(y) /\ x.v = y.v

\* xs.map(a => a.trim())
MapTrim(xs) == [i \in 1..Len(xs) |-> Trim(xs[i])]
\* xs.includes(s)
Includes(xs, s) == \E i \in 1..Len(xs) : xs[i] = s

QuestionTypes == {"multiple-choice", "extraction", "fill-in-the-blank"}

\* answers[index]: the entry under a key, undefined when there is none.
Lookup(answers, index) ==
    IF index \in DOMAIN answers THEN answers[index] ELSE Undefined

\* ----------------------------------------------------------------- grading

\* IsCorrectAnswer with a fill-in-the-blank graded without the length test.
IsCorrectAnswer_NoLengthTest(q, userAnswer) ==
    CASE q.type = "multiple-choice" -> StrictEquals(userAnswer, q.a)
      [] q.type = "extraction" ->
            IF IsArray(q.a)
            THEN IsString(userAnswer)
                 /\ Includes(MapTrim(q.a.v), Trim(userAnswer.v))
            ELSE IsString(userAnswer) /\ Trim(userAnswer.v) = q.a.v
      [] q.type = "fill-in-the-blank" ->
            IF IsArray(userAnswer) /\ IsArray(q.a)
            THEN \A i \in 1..Len(userAnswer.v) :
                    i <= Len(q.a.v) /\ Trim(userAnswer.v[i]) = q.a.v[i]
            ELSE FALSE
      [] OTHER -> FALSE

\* IsCorrectAnswer with the alternatives of an extraction left untrimmed.
IsCorrectAnswer_RawAlternatives(q, userAnswer) ==
    CASE q.type = "multiple-choice" -> StrictEquals(userAnswer, q.a)
      [] q.type = "extraction" ->
            IF IsArray(q.a)
            THEN IsString(userAnswer) /\ Includes(q.a.v, Trim(userAnswer.v))
            ELSE IsString(userAnswer) /\ Trim(userAnswer.v) = q.a.v
      [] q.type = "fill-in-the-blank" ->
            IF IsArray(userAnswer) /\ IsArray(q.a)
               /\ Len(userAnswer.v) = Len(q.a.v)
            THEN \A i \in 1..Len(userAnswer.v) :
                    Trim(userAnswer.v[i]) = q.a.v[i]
            ELSE FALSE
      [] OTHER -> FALSE

\* IsCorrectAnswer with a multiple-choice answer trimmed before the comparison.
IsCorrectAnswer_TrimmedChoice(q, userAnswer) ==
    CASE q.type = "multiple-choice" ->
            IsString(userAnswer) /\ IsString(q.a)
            /\ Trim(userAnswer.v) = Trim(q.a.v)
      [] q.type = "extraction" ->
            IF IsArray(q.a)
            THEN IsString(userAnswer)
                 /\ Includes(MapTrim(q.a.v), Trim(userAnswer.v))
            ELSE IsString(userAnswer) /\ Trim(userAnswer.v) = q.a.v
      [] q.type = "fill-in-the-blank" ->
            IF IsArray(userAnswer) /\ IsArray(q.a)
               /\ Len(userAnswer.v) = Len(q.a.v)
            THEN \A i \in 1..Len(userAnswer.v) :
                    Trim(userAnswer.v[i]) = q.a.v[i]
            ELSE FALSE
      [] OTHER -> FALSE

\* The switch of getScore: isCorrect for a submitted answer that is defined.
IsCorrectAnswer(q, userAnswer) ==
    CASE q.type = "multiple-choice" -> StrictEquals(userAnswer, q.a)
      [] q.type = "extraction" ->
            IF IsArray(q.a)
            THEN IsString(userAnswer)
                 /\ Includes(MapTrim(q.a.v), Trim(userAnswer.v))
            ELSE IsString(userAnswer) /\ Trim(userAnswer.v) = q.a.v
      [] q.type = "fill-in-the-blank" ->
            IF IsArray(userAnswer) /\ IsArray(q.a)
               /\ Len(userAnswer.v) = Len(q.a.v)
            THEN \A i \in 1..Len(userAnswer.v) :
                    Trim(userAnswer.v[i]) = q.a.v[i]
            ELSE FALSE
      [] OTHER -> FALSE

\* QuestionResult with a missing answer graded as the empty string.
QuestionResult_MissingAsEmpty(q, userAnswer) ==
    LET given == IF IsUndefined(userAnswer) THEN Str(<<>>) ELSE userAnswer
    IN [isCorrect |-> IsCorrectAnswer(q, given),
        userAnswer |-> given, correctAnswer |-> q.a]

\* The callback of excerpt.questions.map in getScore: one question's verdict.
QuestionResult(q, userAnswer) ==
    IF IsUndefined(userAnswer)
    THEN [isCorrect |-> FALSE, userAnswer |-> Str(<<>>), correctAnswer |-> q.a]
    ELSE [isCorrect |-> IsCorrectAnswer(q, userAnswer),
          userAnswer |-> userAnswer, correctAnswer |-> q.a]

\* CorrectCount incremented for every question, correct or not.
CorrectCount_EveryQuestion(results, n) == n

\* correctCount after the first n questions: incremented once per question
\* whose answer is defined and correct.
RECURSIVE CorrectCount(_, _)
CorrectCount(results, n) ==
    IF n = 0 THEN 0
    ELSE CorrectCount(results, n - 1) + (IF results[n].isCorrect THEN 1 ELSE 0)

\* getScore(excerpt, answerData), both present.  Question index i of the
\* source (from 0) is position i + 1 of excerpt.questions.
getScore(excerpt, answerData) ==
    LET results == [i \in 1..Len(excerpt.questions) |->
                       QuestionResult(excerpt.questions[i],
                                      Lookup(answerData.answers, i - 1))]
    IN [correct |-> CorrectCount(results, Len(results)),
        total |-> Len(excerpt.questions),
        results |-> results]

checkAnswerCorrectness_NoTrim(question, userAnswer) ==
    CASE question.type = "multiple-choice" -> StrictEquals(userAnswer, question.a)
      [] question.type = "extraction" ->
            IF IsArray(question.a)
            THEN IsString(userAnswer)
                 /\ Includes(MapTrim(question.a.v), Trim(userAnswer.v))
            ELSE StrictEquals(userAnswer, question.a)
      [] question.type = "fill-in-the-blank" ->
            IF IsArray(userAnswer) /\ IsArray(question.a)
               /\ Len(userAnswer.v) = Len(question.a.v)
            THEN \A i \in 1..Len(userAnswer.v) :
                    Trim(userAnswer.v[i]) = question.a.v[i]
            ELSE FALSE
      [] OTHER -> FALSE

\* checkAnswerCorrectness(question, userAnswer) of QuizPage.
checkAnswerCorrectness(question, userAnswer) ==
    CASE question.type = "multiple-choice" -> StrictEquals(userAnswer, question.a)
      [] question.type = "extraction" ->
            IF IsArray(question.a)
            THEN IsString(userAnswer)
                 /\ Includes(MapTrim(question.a.v), Trim(userAnswer.v))
            ELSE IsString(userAnswer) /\ Trim(userAnswer.v) = question.a.v
      [] question.type = "fill-in-the-blank" ->
            IF IsArray(userAnswer) /\ IsArray(question.a)
               /\ Len(userAnswer.v) = Len(question.a.v)
            THEN \A i \in 1..Len(userAnswer.v) :
                    Trim(userAnswer.v[i]) = question.a.v[i]
            ELSE FALSE
      [] OTHER -> FALSE

\* ------------------------------------------------------------------- state

VARIABLES
    \* getScore's and checkAnswerCorrectness's inputs and results
    excerpt,      \* the Excerpt being graded: [questions |-> sequence of Question]
    answerData,   \* the AnswerData being graded: [answers |-> index -> UserAnswer]
    score,        \* the value getScore returned
    live,         \* checkAnswerCorrectness's result, per question
    pc,           \* "input", then "scored" or "checked"
    \* the App component
    answers,      \* the state `answers`: workId -> excerptId -> attempts
    now,          \* the clock behind Date.now()
    \* history variables
    appended,     \* per (workId, excerptId): saveAnswers calls since the last clearAllAnswers
    lastOp,       \* the last record-store operation and the attempts it found stored
    saved,        \* the saveAnswers calls so far
    \* RecordsPage
    categories,   \* the value of categorizedAttempts
    isConfirmingDelete,      \* the state isConfirmingDelete
    confirmationTimeoutRef,  \* confirmationTimeoutRef.current, 0 for null
    timers,       \* window's pending timers: id -> seconds until it is due
    nextTimerId,  \* the id that the next window.setTimeout returns
    \* localStorage and the App's start
    storage,      \* the item 'userAnswers' of localStorage
    app,          \* "boot" before App mounts, then "running" or "crashed"
    bootBlob,     \* history: the item App found when it mounted
    lastWrite,    \* history: "ok" or "failed", the last localStorage.setItem
    \* QuizPage
    shuffledQuestions, \* the state shuffledQuestions
    userAnswers,       \* the state userAnswers: display index -> UserAnswer
    questionStates,    \* the state questionStates: display index -> state
    attemptNumber,     \* the state attemptNumber
    page,              \* "quiz" while QuizPage is mounted, "result" after it
    route              \* the work id and the excerpt key of the route

gradeVars == <<excerpt, answerData, score, live, pc>>
storeVars == <<answers, now, appended, lastOp, saved>>
recordVars == <<categories, isConfirmingDelete, confirmationTimeoutRef,
                timers, nextTimerId>>
persistVars == <<storage, app, bootBlob, lastWrite>>
quizVars == <<shuffledQuestions, userAnswers, questionStates, attemptNumber,
              page, route>>
vars == <<excerpt, answerData, score, live, pc, answers, now, appended, lastOp,
          saved, categories, isConfirmingDelete, confirmationTimeoutRef,
          timers, nextTimerId, storage, app, bootBlob, lastWrite,
          shuffledQuestions, userAnswers, questionStates, attemptNumber,
          page, route>>

\* ------------------------------------------------------------ grading inputs

Strings == StringsUpTo(MaxStrLen)
Items == StringsUpTo(MaxItemLen)
Arrays == UNION {[1..k -> Items] : k \in 0..MaxBlanks}

\* Every value of type string | string[] within the bounds.
AnswerValues == {Str(s) : s \in Strings} \cup {Arr(xs) : xs \in Arrays}

\* Every Question within the bounds (q and options play no part in grading).
Questions == [type : QuestionTypes, a : AnswerValues]

\* Sample questions, one of each shape, and sample submissions for excerpts
\* of several questions.
SampleQuestions ==
    {[type |-> "multiple-choice", a |-> Str(<<"a">>)],
     [type |-> "extraction", a |-> Str(<<"a">>)],
     [type |-> "extraction", a |-> Arr(<< <<"a">>, <<>> >>)],
     [type |-> "fill-in-the-blank", a |-> Arr(<< <<"a">>, <<"a">> >>)]}

SampleAnswers ==
    {Str(<<"a">>), Str(<<" ">>), Arr(<< <<"a">>, <<"a">> >>)}

\* The answer mappings over the question indexes 0..n-1: any subset of the
\* indexes has an entry.
SampleMappings(n) ==
    UNION {[keys -> SampleAnswers] : keys \in SUBSET (0..(n - 1))}

\* The score of nothing: what getScore returns without an excerpt or an attempt.
NoScore == [correct |-> 0, total |-> 0, results |-> <<>>]

\* ------------------------------------------------------- the record store

WorkIds == {"w1", "w2"}
ExcerptIds == {1, 2}

\* excerptId.toString(): the key an excerpt's attempts are stored under.
IdToString(excerptId) ==
    CASE excerptId = 1 -> "1"
      [] excerptId = 2 -> "2"

\* The answer mappings handleFinishQuiz hands to saveAnswers in this model.
StoredAnswers ==
    {(0 :> Str(<<"a">>))}

\* {}: the object with no key.
EmptyObject == <<>>

\* obj[key] || fallback, for objects whose values are objects or arrays.
GetOr(obj, key, fallback) ==
    IF key \in DOMAIN obj THEN obj[key] ELSE fallback

\* { ...obj, [key]: value }
Spread(obj, key, value) ==
    [k \in DOMAIN obj \cup {key} |-> IF k = key THEN value ELSE obj[k]]

\* SaveUpdate that stores the new attempt alone, without the existing ones.
SaveUpdate_Overwrite(prev, workId, excerptId, attempt) ==
    LET currentWorkAnswers == GetOr(prev, workId, EmptyObject)
    IN Spread(prev, workId,
              Spread(currentWorkAnswers, IdToString(excerptId), <<attempt>>))

\* SaveUpdate that does not copy the work's other excerpts.
SaveUpdate_DropsExcerpts(prev, workId, excerptId, attempt) ==
    LET currentWorkAnswers == GetOr(prev, workId, EmptyObject)
        existingAttempts == GetOr(currentWorkAnswers, IdToString(excerptId), <<>>)
    IN Spread(prev, workId,
              Spread(EmptyObject, IdToString(excerptId),
                     Append(existingAttempts, attempt)))

\* The updater saveAnswers hands to setAnswers: prev => { ...prev, ... }.
SaveUpdate(prev, workId, excerptId, attempt) ==
    LET currentWorkAnswers == GetOr(prev, workId, EmptyObject)
        existingAttempts == GetOr(currentWorkAnswers, IdToString(excerptId), <<>>)
    IN Spread(prev, workId,
              Spread(currentWorkAnswers, IdToString(excerptId),
                     Append(existingAttempts, attempt)))

\* getAttemptCount(workId, excerptId) over a value of the state `answers`:
\* answers[workId]?.[excerptId.toString()]?.length || 0
AttemptCount(store, workId, excerptId) ==
    IF workId \in DOMAIN store /\ IdToString(excerptId) \in DOMAIN store[workId]
    THEN Len(store[workId][IdToString(excerptId)])
    ELSE 0

getAttemptCount(workId, excerptId) == AttemptCount(answers, workId, excerptId)

\* The attempts stored under (workId, excerptId), none when a key is absent.
Attempts(store, workId, excerptId) ==
    GetOr(GetOr(store, workId, EmptyObject), IdToString(excerptId), <<>>)

\* Every attempt the store holds.
TotalAttempts(store) ==
    LET n(w, e) == AttemptCount(store, w, e)
    IN n("w1", 1) + n("w1", 2) + n("w2", 1) + n("w2", 2)

\* A cleared store that is the store as it was.
ClearedStore_Stale == answers

\* The value clearAllAnswers hands to setAnswers: {}.
ClearedStore == EmptyObject

InitStore ==
    /\ answers = EmptyObject
    /\ now = 0
    /\ appended = [w \in WorkIds, e \in ExcerptIds |-> 0]
    /\ lastOp = [op |-> "none", held |-> 0]
    /\ saved = 0

\* saveAnswers(workId, excerptId, userAnswers, studyTime): what it does to the
\* state `answers`.  The effect that then writes `answers` to localStorage is
\* Persist, below.
saveAnswers(workId, excerptId, givenAnswers, studyTime) ==
    /\ saved < MaxAttempts
    /\ LET attempt == [answers |-> givenAnswers, studyTime |-> studyTime,
                       timestamp |-> now]
       IN answers' = SaveUpdate(answers, workId, excerptId, attempt)
    /\ appended' = [appended EXCEPT ![workId, excerptId] = @ + 1]
    /\ lastOp' = [op |-> "saveAnswers", held |-> TotalAttempts(answers)]
    /\ saved' = saved + 1
    /\ UNCHANGED now

\* clearAllAnswers()
clearAllAnswers ==
    /\ answers' = ClearedStore
    /\ appended' = [w \in WorkIds, e \in ExcerptIds |-> 0]
    /\ lastOp' = [op |-> "clearAllAnswers", held |-> TotalAttempts(answers)]
    /\ UNCHANGED <<now, saved>>

\* Time passes: Date.now() never goes back.
Tick ==
    /\ now < MaxClock
    /\ now' = now + 1
    /\ UNCHANGED <<answers, appended, lastOp, saved>>

\* The grading variables of a specification that grades nothing.
IdleGrade ==
    /\ excerpt = [questions |-> <<>>]
    /\ answerData = [answers |-> <<>>]
    /\ score = NoScore
    /\ live = <<>>
    /\ pc = "idle"

\* RecordsPage not shown, and no timer set.
IdleRecords ==
    /\ categories = <<>>
    /\ isConfirmingDelete = FALSE
    /\ confirmationTimeoutRef = 0
    /\ timers = <<>>
    /\ nextTimerId = 1

\* localStorage left out: the App runs, and nothing is known of the item.
IdlePersist ==
    /\ storage = [present |-> FALSE, text |-> ""]
    /\ app = "running"
    /\ bootBlob = [present |-> FALSE, text |-> ""]
    /\ lastWrite = "none"

\* QuizPage not shown.
IdleQuiz ==
    /\ shuffledQuestions = <<>>
    /\ userAnswers = <<>>
    /\ questionStates = <<>>
    /\ attemptNumber = 0
    /\ page = "none"
    /\ route = [workId |-> "", excerptId |-> ""]

Init == InitStore /\ IdleGrade /\ IdleRecords /\ IdlePersist /\ IdleQuiz

Next ==
    \/ /\ \E workId \in WorkIds, excerptId \in ExcerptIds,
             givenAnswers \in StoredAnswers, studyTime \in 1..MaxStudyTime :
             saveAnswers(workId, excerptId, givenAnswers, studyTime)
       /\ UNCHANGED <<gradeVars, recordVars, persistVars, quizVars>>
    \/ /\ clearAllAnswers
       /\ UNCHANGED <<gradeVars, recordVars, persistVars, quizVars>>
    \/ /\ Tick
       /\ UNCHANGED <<gradeVars, recordVars, persistVars, quizVars>>

Spec == Init /\ [][Next]_vars

\* A one-question excerpt with any question and any submission or none, or an
\* excerpt of sample questions with any sample answer mapping.
DrawInputs ==
    /\ \/ \E q \in Questions, u \in AnswerValues \cup {Undefined} :
             /\ excerpt = [questions |-> <<q>>]
             /\ answerData =
                   [answers |-> IF IsUndefined(u) THEN <<>> ELSE (0 :> u)]
       \/ \E n \in 0..MaxQuestions :
             \E qs \in [1..n -> SampleQuestions], m \in SampleMappings(n) :
                /\ excerpt = [questions |-> qs]
                /\ answerData = [answers |-> m]
    /\ score = NoScore
    /\ live = <<>>
    /\ pc = "input"

\* ResultPage and RecordsPage: getScore over an excerpt and a stored attempt,
\* which handleGradeAnswers may have checked before.
ScoreAttempt ==
    /\ pc \in {"input", "checked"}
    /\ score' = getScore(excerpt, answerData)
    /\ pc' = IF pc = "input" THEN "scored" ELSE "both"
    /\ UNCHANGED <<excerpt, answerData, live>>
    /\ UNCHANGED <<storeVars, recordVars, persistVars, quizVars>>

\* handleGradeAnswers's use of checkAnswerCorrectness, question by question.
CheckAnswers ==
    /\ pc = "input"
    /\ live' = [i \in 1..Len(excerpt.questions) |->
                   checkAnswerCorrectness(excerpt.questions[i],
                                          Lookup(answerData.answers, i - 1))]
    /\ pc' = "checked"
    /\ UNCHANGED <<excerpt, answerData, score>>
    /\ UNCHANGED <<storeVars, recordVars, persistVars, quizVars>>

NextGrade == ScoreAttempt \/ CheckAnswers

InitGrade ==
    DrawInputs /\ InitStore /\ IdleRecords /\ IdlePersist /\ IdleQuiz

SpecGrade == InitGrade /\ [][NextGrade]_vars

\* ----------------------------------------------------------------- content

\* `works`, the content imported from ./data: works with string ids, each
\* with excerpts with numeric ids and questions (types.ts); a question that
\* is no multiple choice has no options.  Every pair of WorkIds and
\* ExcerptIds is in it.
MakeExcerpt(id, questions) == [id |-> id, questions |-> questions]

works ==
    << [id |-> "w1",
        excerpts |->
          << MakeExcerpt(1, << [type |-> "multiple-choice", a |-> Str(<<"a">>),
                                options |-> << <<"a">>, <<"a", "a">> >>] >>),
             MakeExcerpt(2, << [type |-> "extraction", a |-> Str(<<"a">>),
                                options |-> <<>>],
                               [type |-> "multiple-choice", a |-> Str(<<"a">>),
                                options |-> << <<"a", "a">>, <<"a">> >>] >>) >>],
       [id |-> "w2",
        excerpts |->
          << MakeExcerpt(1, << [type |-> "fill-in-the-blank",
                                a |-> Arr(<< <<"a">>, <<"a">> >>),
                                options |-> <<>>] >>),
             MakeExcerpt(2, << [type |-> "extraction",
                                a |-> Arr(<< <<"a">> >>),
                                options |-> <<>>] >>) >>] >>

\* A work id of an earlier version of the content, which `works` has no more.
RemovedWorkIds == {"w0"}

\* Array.prototype.find over the indexes `hits` of the elements that pass
\* the test: the first of them, 0 when there is none.
FirstIndex(hits) ==
    IF hits = {} THEN 0 ELSE CHOOSE i \in hits : \A j \in hits : i <= j

\* works.find(w => w.id === workId), as an index into works.
FindWork(workId) ==
    FirstIndex({w \in 1..Len(works) : works[w].id = workId})

\* work.excerpts.find(e => e.id.toString() === excerptKey), as an index.
FindExcerpt(work, excerptKey) ==
    FirstIndex({e \in 1..Len(work.excerpts) :
                   IdToString(work.excerpts[e].id) = excerptKey})

\* Number(excerptKey), for the keys that the store holds.
ToNumber(excerptKey) ==
    CHOOSE n \in ExcerptIds : IdToString(n) = excerptKey

\* -------------------------------------------------------------- RecordsPage

\* The clock counts hours, and a calendar day has this many.
HoursPerDay == 24

\* Object.entries(obj), as the sequence of its keys: the keys that are in
\* `order`, in that order.
RECURSIVE KeysIn(_, _)
KeysIn(obj, order) ==
    IF order = <<>> THEN <<>>
    ELSE (IF Head(order) \in DOMAIN obj THEN <<Head(order)>> ELSE <<>>)
         \o KeysIn(obj, Tail(order))

\* The keys of work ids come in the order of their first save, which the
\* store does not keep; the model lists them in this one order.
WorkKeyOrder == <<"w0", "w1", "w2">>
\* The keys of excerpt ids are integer-like, and come in ascending order.
ExcerptKeyOrder == <<"1", "2">>

\* Array.prototype.flatMap, after the callback: the sequences of xss, chained.
RECURSIVE Flat(_)
Flat(xss) == IF xss = <<>> THEN <<>> ELSE Head(xss) \o Flat(Tail(xss))


ScoredAttempts_LastOnly(workId, excerptKey, attempts) ==
    LET w == FindWork(workId)
        e == IF w = 0 THEN 0 ELSE FindExcerpt(works[w], excerptKey)
        n == Len(attempts)
    IN IF w = 0 \/ e = 0 \/ n = 0 THEN <<>>
       ELSE << [workId |-> workId,
                excerptId |-> ToNumber(excerptKey),
                score |-> getScore(works[w].excerpts[e], attempts[n]),
                answers |-> attempts[n].answers,
                studyTime |-> attempts[n].studyTime,
                timestamp |-> attempts[n].timestamp] >>

\* The inner callback: the attempts of one work and excerpt, each with its
\* ids and its score; none when the content has no such work or excerpt.
ScoredAttempts(workId, excerptKey, attempts) ==
    LET w == FindWork(workId)
        e == IF w = 0 THEN 0 ELSE FindExcerpt(works[w], excerptKey)
    IN IF w = 0 \/ e = 0 THEN <<>>
       ELSE [i \in 1..Len(attempts) |->
               [workId |-> workId,
                excerptId |-> ToNumber(excerptKey),
                score |-> getScore(works[w].excerpts[e], attempts[i]),
                answers |-> attempts[i].answers,
                studyTime |-> attempts[i].studyTime,
                timestamp |-> attempts[i].timestamp]]

\* xs with x put in behind everything that is not older than x.
RECURSIVE InsertNewestFirst(_, _)
InsertNewestFirst(xs, x) ==
    IF xs = <<>> THEN <<x>>
    ELSE IF Head(xs).timestamp >= x.timestamp
         THEN <<Head(xs)>> \o InsertNewestFirst(Tail(xs), x)
         ELSE <<x>> \o xs

SortNewestFirst_Unsorted(xs) == xs

\* xs.sort((a, b) => b.timestamp - a.timestamp), which is stable.
RECURSIVE SortNewestFirst(_)
SortNewestFirst(xs) ==
    IF xs = <<>> THEN <<>>
    ELSE InsertNewestFirst(SortNewestFirst(SubSeq(xs, 1, Len(xs) - 1)),
                           xs[Len(xs)])

\* allAttempts.
AllAttempts(store) ==
    LET workIds == KeysIn(store, WorkKeyOrder)
        OfWork(workId) ==
            LET excerptKeys == KeysIn(store[workId], ExcerptKeyOrder)
            IN Flat([k \in 1..Len(excerptKeys) |->
                       ScoredAttempts(workId, excerptKeys[k],
                                      store[workId][excerptKeys[k]])])
    IN SortNewestFirst(Flat([w \in 1..Len(workIds) |-> OfWork(workIds[w])]))

TodayStart_Rolling(clock) == clock

\* new Date(now.getFullYear(), now.getMonth(), now.getDate()): the start of
\* the calendar day of `clock`.
TodayStart(clock) == clock - (clock % HoursPerDay)

\* d.setDate(d.getDate() - n): the start of the day n days before.
DaysBefore(dayStart, n) == dayStart - n * HoursPerDay

CategoryKey_ThirtyDays(timestamp, clock) ==
    LET todayStart == TodayStart(clock)
    IN IF timestamp >= todayStart THEN "today"
       ELSE IF timestamp >= DaysBefore(todayStart, 1) THEN "yesterday"
       ELSE IF timestamp >= DaysBefore(todayStart, 7) THEN "sevenDays"
       ELSE IF timestamp >= DaysBefore(todayStart, 30) THEN "thirtyDays"
       ELSE "older"

\* categoryKey.
CategoryKey(timestamp, clock) ==
    LET todayStart == TodayStart(clock)
        yesterdayStart == DaysBefore(todayStart, 1)
        sevenDaysAgo == DaysBefore(todayStart, 7)
        thirtyDaysAgo == DaysBefore(todayStart, 30)
    IN IF timestamp >= todayStart THEN "today"
       ELSE IF timestamp >= yesterdayStart THEN "yesterday"
       ELSE IF timestamp >= sevenDaysAgo THEN "sevenDays"
       ELSE IF timestamp >= thirtyDaysAgo THEN "older"
       ELSE "older"

\* The keys of `categories`, in the order of the object literal.
CategoryKeys == <<"today", "yesterday", "sevenDays", "thirtyDays", "older">>

\* `categories` as first built: every key with no attempts and no time (the
\* title, a constant of the key, is left out).
EmptyCategories ==
    [k \in {CategoryKeys[i] : i \in 1..Len(CategoryKeys)} |->
        [attempts |-> <<>>, totalTime |-> 0]]

PushAttempt_TimeOfLast(cats, attempt, clock) ==
    LET key == CategoryKey(attempt.timestamp, clock)
    IN [cats EXCEPT ![key] =
          [attempts |-> Append(@.attempts, attempt),
           totalTime |-> attempt.studyTime]]

\* The body of allAttempts.forEach: the attempt pushed onto its category,
\* and its studyTime added to that category's totalTime.
PushAttempt(cats, attempt, clock) ==
    LET key == CategoryKey(attempt.timestamp, clock)
    IN [cats EXCEPT ![key] =
          [attempts |-> Append(@.attempts, attempt),
           totalTime |-> @.totalTime + attempt.studyTime]]

RECURSIVE PushAll(_, _, _)
PushAll(cats, attempts, clock) ==
    IF attempts = <<>> THEN cats
    ELSE PushAll(PushAttempt(cats, Head(attempts), clock), Tail(attempts),
                 clock)

\* Object.entries(categories).filter(([_, data]) => data.attempts.length > 0),
\* each entry a record of the key and the data.
NonEmptyEntries(cats) ==
    LET Entry(key) ==
            IF Len(cats[key].attempts) > 0
            THEN << [key |-> key, data |-> cats[key]] >>
            ELSE <<>>
    IN Flat([k \in 1..Len(CategoryKeys) |-> Entry(CategoryKeys[k])])

\* categorizedAttempts, computed at the instant `clock`.
categorizedAttempts(store, clock) ==
    NonEmptyEntries(PushAll(EmptyCategories, AllAttempts(store), clock))

\* The hours before `now` at which the attempts of a drawn store were saved:
\* around the starts of today, of yesterday, of the day seven days before
\* and of the day thirty days before.
RecordAges == {0, 1, 25, 26, 169, 170, 240, 800}
\* The instants at which RecordsPage is shown: at the start of a day, and
\* one hour later.
RecordClocks == {40 * HoursPerDay, 40 * HoursPerDay + 1}
\* The most attempts of a drawn store.
MaxRecords == 2
\* The works and excerpts of a drawn store's attempts.
RecordKeys == {<<"w1", 1>>, <<"w2", 2>>, <<"w0", 1>>}

RecordEntries ==
    [key : RecordKeys, age : RecordAges, studyTime : 1..MaxStudyTime]

\* The store after the saves of `entries`, each `age` hours before `clock`.
RECURSIVE Replay(_, _)
Replay(entries, clock) ==
    IF entries = <<>> THEN EmptyObject
    ELSE LET last == entries[Len(entries)]
         IN SaveUpdate(Replay(SubSeq(entries, 1, Len(entries) - 1), clock),
                       last.key[1], last.key[2],
                       [answers |-> (0 :> Str(<<"a">>)),
                        studyTime |-> last.studyTime,
                        timestamp |-> clock - last.age])

\* A store that earlier runs left, the content of some of them since
\* removed, and the instant at which RecordsPage is opened.
InitRecords ==
    /\ \E clock \in RecordClocks, n \in 0..MaxRecords :
          \E entries \in [1..n -> RecordEntries] :
             /\ now = clock
             /\ answers = Replay(entries, clock)
    /\ appended = [w \in WorkIds, e \in ExcerptIds |-> 0]
    /\ lastOp = [op |-> "none", held |-> 0]
    /\ saved = 0
    /\ IdleGrade /\ IdleRecords /\ IdlePersist /\ IdleQuiz

\* RecordsPage mounts and renders: its state is initialised, and
\* categorizedAttempts is computed from `answers`.
ShowRecords ==
    /\ page = "none"
    /\ page' = "records"
    /\ categories' = categorizedAttempts(answers, now)
    /\ isConfirmingDelete' = FALSE
    /\ confirmationTimeoutRef' = 0
    /\ UNCHANGED <<timers, nextTimerId>>
    /\ UNCHANGED <<shuffledQuestions, userAnswers, questionStates,
                   attemptNumber, route>>
    /\ UNCHANGED <<gradeVars, storeVars, persistVars>>

NextRecords == ShowRecords

SpecRecords == InitRecords /\ [][NextRecords]_vars

\* ------------------------------------------------------------- localStorage

\* An item of localStorage: absent (getItem returns null), or a text.
NoItem == [present |-> FALSE, text |-> ""]
Item(text) == [present |-> TRUE, text |-> text]

\* The value null, which a JSON text can hold and a store never is.
JsonNull == [kind |-> "null"]
IsJsonNull(value) == "kind" \in DOMAIN value

\* The characters of a string, as one text.
RECURSIVE JoinChars(_)
JoinChars(s) == IF s = <<>> THEN "" ELSE Head(s) \o JoinChars(Tail(s))

\* The texts, with commas between them.
RECURSIVE JoinComma(_)
JoinComma(texts) ==
    IF texts = <<>> THEN ""
    ELSE IF Len(texts) = 1 THEN texts[1]
    ELSE texts[1] \o "," \o JoinComma(Tail(texts))

\* The numbers of a finite set, ascending.
RECURSIVE Ascending(_)
Ascending(numbers) ==
    IF numbers = {} THEN <<>>
    ELSE LET least == CHOOSE n \in numbers : \A m \in numbers : n <= m
         IN <<least>> \o Ascending(numbers \ {least})

\* JSON.stringify of a string.
JsonString(text) == "\"" \o text \o "\""

\* JSON.stringify of a UserAnswer.
JsonUserAnswer(u) ==
    IF IsString(u) THEN JsonString(JoinChars(u.v))
    ELSE "[" \o JoinComma([i \in 1..Len(u.v) |-> JsonString(JoinChars(u.v[i]))])
         \o "]"

\* JSON.stringify of the answers of an attempt: its integer-like keys come
\* in ascending order.
JsonAnswers(mapping) ==
    LET keys == Ascending(DOMAIN mapping)
    IN "{" \o JoinComma([k \in 1..Len(keys) |->
                           JsonString(ToString(keys[k])) \o ":"
                           \o JsonUserAnswer(mapping[keys[k]])])
       \o "}"

\* JSON.stringify of an AnswerData, its properties in the order in which
\* saveAnswers made them.
JsonAttempt(attempt) ==
    "{\"answers\":" \o JsonAnswers(attempt.answers)
    \o ",\"studyTime\":" \o ToString(attempt.studyTime)
    \o ",\"timestamp\":" \o ToString(attempt.timestamp) \o "}"

\* JSON.stringify of the excerpts of a work.
JsonExcerpts(excerpts) ==
    LET keys == KeysIn(excerpts, ExcerptKeyOrder)
    IN "{" \o JoinComma([k \in 1..Len(keys) |->
                           JsonString(keys[k]) \o ":["
                           \o JoinComma([i \in 1..Len(excerpts[keys[k]]) |->
                                           JsonAttempt(excerpts[keys[k]][i])])
                           \o "]"])
       \o "}"

\* JSON.stringify(value), for a store and for null.
JsonStringify(value) ==
    IF IsJsonNull(value) THEN "null"
    ELSE LET keys == KeysIn(value, WorkKeyOrder)
         IN "{" \o JoinComma([k \in 1..Len(keys) |->
                                JsonString(keys[k]) \o ":"
                                \o JsonExcerpts(value[keys[k]])])
            \o "}"

\* The stores that an earlier run can have left in localStorage.
PersistedStores ==
    {Replay(entries, 0) :
        entries \in UNION {[1..n -> [key : {<<"w1", 1>>}, age : {0},
                                     studyTime : {1}]] : n \in 0..1}}

\* The values of the JSON texts that the model parses.
JsonDocuments == {JsonNull} \cup PersistedStores

\* JSON.parse(text): the value of which `text` is the JSON text; a text that
\* is no JSON text throws SyntaxError.
JsonParse(text) ==
    LET values == {v \in JsonDocuments : JsonStringify(v) = text}
    IN IF values = {} THEN [ok |-> FALSE, value |-> JsonNull]
       ELSE [ok |-> TRUE, value |-> CHOOSE v \in values : TRUE]

\* The initialiser of the state `answers`: the parsed item, {} when there is
\* no item or an empty one, and {} when JSON.parse throws.
LoadAnswers(item) ==
    IF ~item.present \/ item.text = "" THEN EmptyObject
    ELSE LET parsed == JsonParse(item.text)
         IN IF parsed.ok THEN parsed.value ELSE EmptyObject

\* The first render (HomePage) calls getAttemptCount for the excerpts of
\* every work: answers[workId] throws TypeError when `answers` is null, and
\* nothing catches it.
RenderThrows(value) == IsJsonNull(value)

PersistedItem_Previous(store) == Item(JsonStringify(answers))

\* The item that the effect hands to localStorage.setItem.
PersistedItem(store) == Item(JsonStringify(store))

\* The effect on `answers`, run after the render that a change of `answers`
\* caused and before the next event: setItem stores the text, or throws (no
\* room left, or storage switched off), which is caught and logged.
Persist(store) ==
    \/ /\ storage' = PersistedItem(store)
       /\ lastWrite' = "ok"
    \/ /\ storage' = storage
       /\ lastWrite' = "failed"

\* What localStorage can hold under 'userAnswers' when the App starts:
\* nothing, an empty text, a text cut short, the text null, or the text of a
\* store of an earlier run.
InitialItems ==
    {NoItem, Item(""), Item("{\"w1\":{\"1\":[{\"answers\":{\"0"),
     Item("null")}
    \cup {Item(JsonStringify(store)) : store \in PersistedStores}

\* Before the App mounts.
InitPersist ==
    /\ storage \in InitialItems
    /\ app = "boot"
    /\ bootBlob = NoItem
    /\ lastWrite = "none"
    /\ InitStore /\ IdleGrade /\ IdleRecords /\ IdleQuiz

\* The App mounts: the state `answers` is initialised from localStorage, the
\* first render follows, and the effect on `answers` after it.
Mount ==
    /\ app = "boot"
    /\ answers' = LoadAnswers(storage)
    /\ bootBlob' = storage
    /\ lastOp' = [op |-> "mount", held |-> 0]
    /\ IF RenderThrows(answers')
       THEN app' = "crashed" /\ UNCHANGED <<storage, lastWrite>>
       ELSE app' = "running" /\ Persist(answers')
    /\ UNCHANGED <<now, appended, saved>>
    /\ UNCHANGED <<gradeVars, recordVars, quizVars>>

\* The works and excerpts saved under in this specification.
PersistKeys == {<<"w1", 1>>, <<"w2", 2>>}

\* saveAnswers is called, and the effect on `answers` runs.
SaveAndPersist ==
    /\ app = "running"
    /\ \E key \in PersistKeys, givenAnswers \in StoredAnswers :
          saveAnswers(key[1], key[2], givenAnswers, 1)
    /\ Persist(answers')
    /\ UNCHANGED <<app, bootBlob>>
    /\ UNCHANGED <<gradeVars, recordVars, quizVars>>

\* clearAllAnswers is called, and the effect on `answers` runs.
ClearAndPersist ==
    /\ app = "running"
    /\ clearAllAnswers
    /\ Persist(answers')
    /\ UNCHANGED <<app, bootBlob>>
    /\ UNCHANGED <<gradeVars, recordVars, quizVars>>

TickPersist ==
    /\ app = "running"
    /\ Tick
    /\ UNCHANGED <<gradeVars, recordVars, persistVars, quizVars>>

NextPersist == Mount \/ SaveAndPersist \/ ClearAndPersist \/ TickPersist

SpecPersist == InitPersist /\ [][NextPersist]_vars

\* ---------------------------------------------------------------- QuizPage

\* The excerpt of the route: works.find(...), then work.excerpts.find(...).
RoutedWork == works[FindWork(route.workId)]
RoutedExcerpt ==
    RoutedWork.excerpts[FindExcerpt(RoutedWork, route.excerptId)]

\* shuffleArray(array): the array in any order.
Shuffles(array) ==
    {[i \in 1..Len(array) |-> array[perm[i]]] :
        perm \in {f \in [1..Len(array) -> 1..Len(array)] :
                     \A i, j \in 1..Len(array) : f[i] = f[j] => i = j}}

\* excerpt.questions.map((q, index) => ({ ...q, originalIndex: index })).
WithOriginalIndex(questions) ==
    [i \in 1..Len(questions) |->
        [type |-> questions[i].type, a |-> questions[i].a,
         options |-> questions[i].options, originalIndex |-> i - 1]]

\* An array of n empty strings: Array(n).fill('').
EmptyStrings(n) == Arr([i \in 1..n |-> <<>>])

\* The answer of a question before any input, and after an incorrect one.
BlankAnswer(q) ==
    IF q.type = "fill-in-the-blank" /\ IsArray(q.a)
    THEN EmptyStrings(Len(q.a.v))
    ELSE Str(<<>>)

\* The display indexes.
DisplayIndexes == 0..(Len(shuffledQuestions) - 1)

\* No blankIndex given.
NoBlank == -1

\* The texts typed into an input.
QuizTexts == StringsUpTo(MaxStrLen)

\* xs with xs[index] = text, as JavaScript's assignment leaves it: an index
\* past the end lengthens the array (the holes, which no run of the model
\* makes, as empty strings).
SetAt(xs, index, text) ==
    [i \in 1..(IF index + 1 > Len(xs) THEN index + 1 ELSE Len(xs)) |->
        IF i = index + 1 THEN text
        ELSE IF i <= Len(xs) THEN xs[i] ELSE <<>>]

\* The updater of handleAnswerChange: the new value of userAnswers.
AnswersAfterChange(prev, displayIndex, value, blankIndex) ==
    LET question == shuffledQuestions[displayIndex + 1]
    IN IF question.type = "fill-in-the-blank"
       THEN LET currentAnswerArray ==
                    IF IsArray(prev[displayIndex]) THEN prev[displayIndex].v
                    ELSE <<>>
            IN [prev EXCEPT ![displayIndex] =
                  IF IsString(value) /\ blankIndex # NoBlank
                  THEN Arr(SetAt(currentAnswerArray, blankIndex, value.v))
                  ELSE Arr(currentAnswerArray)]
       ELSE [prev EXCEPT ![displayIndex] = value]

areAllInputsFilled_NotChecked == Len(shuffledQuestions) # 0

\* areAllInputsFilled
areAllInputsFilled ==
    /\ Len(shuffledQuestions) # 0
    /\ \A index \in DisplayIndexes :
          \/ questionStates[index] = "correct"
          \/ LET q == shuffledQuestions[index + 1]
                 answer == userAnswers[index]
             IN IF q.type = "fill-in-the-blank"
                THEN /\ IsArray(answer)
                     /\ \A k \in 1..Len(answer.v) : Trim(answer.v[k]) # <<>>
                ELSE IsString(answer) /\ Trim(answer.v) # <<>>

isFinished_AfterTwo ==
    IF attemptNumber = 0 THEN FALSE
    ELSE LET allCorrect ==
                 \A i \in DisplayIndexes : questionStates[i] = "correct"
         IN allCorrect \/ attemptNumber >= 2

\* isFinished
isFinished ==
    IF attemptNumber = 0 THEN FALSE
    ELSE LET allCorrect ==
                 \A i \in DisplayIndexes : questionStates[i] = "correct"
         IN allCorrect \/ attemptNumber >= 3

\* The controls of the question at displayIndex, and what each passes to
\* handleAnswerChange: an option of a multiple choice, the text of the input
\* of an extraction, the text of the input of one blank.
Inputs(displayIndex) ==
    LET q == shuffledQuestions[displayIndex + 1]
    IN IF q.type = "multiple-choice"
       THEN {[value |-> Str(q.options[k]), blankIndex |-> NoBlank] :
                k \in 1..Len(q.options)}
       ELSE IF q.type = "extraction"
       THEN {[value |-> Str(text), blankIndex |-> NoBlank] :
                text \in QuizTexts}
       ELSE IF q.type = "fill-in-the-blank" /\ IsArray(q.a)
       THEN {[value |-> Str(text), blankIndex |-> k - 1] :
                text \in QuizTexts, k \in 1..Len(q.a.v)}
       ELSE {}

handleAnswerChange_Unlocked(displayIndex, value, blankIndex) ==
    /\ page = "quiz"
    /\ userAnswers' =
          AnswersAfterChange(userAnswers, displayIndex, value, blankIndex)
    /\ UNCHANGED <<shuffledQuestions, questionStates, attemptNumber, page,
                   route>>
    /\ UNCHANGED <<gradeVars, storeVars, recordVars, persistVars>>

\* handleAnswerChange(displayIndex, value, blankIndex), from a control, which
\* is disabled when the question is correct.
handleAnswerChange(displayIndex, value, blankIndex) ==
    /\ page = "quiz"
    /\ questionStates[displayIndex] # "correct"
    /\ userAnswers' =
          AnswersAfterChange(userAnswers, displayIndex, value, blankIndex)
    /\ UNCHANGED <<shuffledQuestions, questionStates, attemptNumber, page,
                   route>>
    /\ UNCHANGED <<gradeVars, storeVars, recordVars, persistVars>>

\* handleGradeAnswers, from the grade button, which is shown until the quiz
\* is finished and enabled when all inputs are filled.
handleGradeAnswers ==
    /\ page = "quiz"
    /\ ~isFinished
    /\ areAllInputsFilled
    /\ LET isCorrect(index) ==
               checkAnswerCorrectness(shuffledQuestions[index + 1],
                                      userAnswers[index])
       IN /\ questionStates' =
                [index \in DisplayIndexes |->
                    IF questionStates[index] # "correct"
                    THEN (IF isCorrect(index) THEN "correct" ELSE "incorrect")
                    ELSE questionStates[index]]
          /\ userAnswers' =
                [index \in DisplayIndexes |->
                    IF questionStates[index] # "correct" /\ ~isCorrect(index)
                    THEN BlankAnswer(shuffledQuestions[index + 1])
                    ELSE userAnswers[index]]
    /\ attemptNumber' = attemptNumber + 1
    /\ UNCHANGED <<shuffledQuestions, page, route>>
    /\ UNCHANGED <<gradeVars, storeVars, recordVars, persistVars>>

\* userAnswers[displayIndex] || fallback: '' and undefined are falsy.
OrFallback(value, fallback) ==
    IF IsUndefined(value) \/ (IsString(value) /\ value.v = <<>>) THEN fallback
    ELSE value

\* orderedAnswers: the answers under the original indexes.
OrderedAnswers ==
    [original \in {shuffledQuestions[i].originalIndex :
                      i \in 1..Len(shuffledQuestions)} |->
        LET i == CHOOSE i \in 1..Len(shuffledQuestions) :
                    shuffledQuestions[i].originalIndex = original
        IN OrFallback(userAnswers[i - 1],
                      IF shuffledQuestions[i].type = "fill-in-the-blank"
                      THEN Arr(<<>>) ELSE Str(<<>>))]

\* The last attempt stored for the route: answerData of ResultPage.
LastAttempt(store) ==
    LET attempts == store[route.workId][route.excerptId]
    IN attempts[Len(attempts)]

\* handleFinishQuiz, from the button shown when the quiz is finished: the
\* answers are saved, the effect on `answers` runs, and ResultPage scores
\* the attempt that it finds last.
handleFinishQuiz ==
    /\ page = "quiz"
    /\ isFinished
    /\ \E elapsed \in 0..MaxStudyTime :
          saveAnswers(RoutedWork.id, RoutedExcerpt.id, OrderedAnswers,
                      IF elapsed > 0 THEN elapsed ELSE 1)
    /\ Persist(answers')
    /\ page' = "result"
    /\ excerpt' = RoutedExcerpt
    /\ answerData' = LastAttempt(answers')
    /\ score' = getScore(excerpt', answerData')
    /\ pc' = "scored"
    /\ UNCHANGED <<live, app, bootBlob>>
    /\ UNCHANGED <<shuffledQuestions, userAnswers, questionStates,
                   attemptNumber, route>>
    /\ UNCHANGED recordVars

\* QuizPage mounts on the route of an excerpt of the content, in an App that
\* started without an item and has written its empty store.
InitQuiz ==
    /\ \E w \in 1..Len(works) :
          \E e \in 1..Len(works[w].excerpts) :
             /\ route = [workId |-> works[w].id,
                         excerptId |-> IdToString(works[w].excerpts[e].id)]
             /\ shuffledQuestions
                   \in Shuffles(WithOriginalIndex(works[w].excerpts[e].questions))
    /\ userAnswers = [index \in DisplayIndexes |->
                         BlankAnswer(shuffledQuestions[index + 1])]
    /\ questionStates = [index \in DisplayIndexes |-> "unanswered"]
    /\ attemptNumber = 0
    /\ page = "quiz"
    /\ storage = PersistedItem(EmptyObject)
    /\ app = "running"
    /\ bootBlob = NoItem
    /\ lastWrite = "ok"
    /\ InitStore /\ IdleGrade /\ IdleRecords

NextQuiz ==
    \/ \E displayIndex \in DisplayIndexes :
          \E input \in Inputs(displayIndex) :
             handleAnswerChange(displayIndex, input.value, input.blankIndex)
    \/ handleGradeAnswers
    \/ handleFinishQuiz

SpecQuiz == InitQuiz /\ [][NextQuiz]_vars

\* ------------------------------------------------- RecordsPage: delete all

\* confirmationTimeoutRef.current = null
NoTimer == 0

\* The delay of the confirmation timer, in seconds: 2000 ms.
ConfirmDelay == 2

\* The most timers set in one run.
MaxTimers == 3

\* The pending timers.
Pending == DOMAIN timers

\* clearTimeout(id): the timer is pending no more.
ClearTimeout(pending, id) ==
    [t \in DOMAIN pending \ {id} |-> pending[t]]

\* The delete buttons are rendered: RecordsPage is shown and has attempts.
DeleteButtonShown == page = "records" /\ Len(categories) > 0

\* handleDeleteClick, from the delete button, shown when not confirming.
handleDeleteClick ==
    /\ DeleteButtonShown
    /\ ~isConfirmingDelete
    /\ nextTimerId <= MaxTimers
    /\ isConfirmingDelete' = TRUE
    /\ timers' = [t \in Pending \cup {nextTimerId} |->
                    IF t = nextTimerId THEN ConfirmDelay ELSE timers[t]]
    /\ confirmationTimeoutRef' = nextTimerId
    /\ nextTimerId' = nextTimerId + 1
    /\ UNCHANGED categories
    /\ UNCHANGED <<gradeVars, storeVars, persistVars, quizVars>>

\* The callback of the timer `id` runs, when the timer is due: the button
\* reverts, if RecordsPage is still mounted.
TimerFires(id) ==
    /\ id \in Pending
    /\ timers[id] = 0
    /\ timers' = ClearTimeout(timers, id)
    /\ IF page = "records"
       THEN isConfirmingDelete' = FALSE /\ confirmationTimeoutRef' = NoTimer
       ELSE UNCHANGED <<isConfirmingDelete, confirmationTimeoutRef>>
    /\ UNCHANGED <<categories, nextTimerId>>
    /\ UNCHANGED <<gradeVars, storeVars, persistVars, quizVars>>

\* A second passes, while no pending timer is due.
SecondPasses ==
    /\ Pending # {}
    /\ \A t \in Pending : timers[t] > 0
    /\ timers' = [t \in Pending |-> timers[t] - 1]
    /\ UNCHANGED <<categories, isConfirmingDelete, confirmationTimeoutRef,
                   nextTimerId>>
    /\ UNCHANGED <<gradeVars, storeVars, persistVars, quizVars>>

handleConfirmDelete_KeepsTimer ==
    /\ DeleteButtonShown
    /\ isConfirmingDelete
    /\ confirmationTimeoutRef' = NoTimer
    /\ UNCHANGED timers
    /\ clearAllAnswers
    /\ Persist(answers')
    /\ categories' = categorizedAttempts(answers', now)
    /\ isConfirmingDelete' = FALSE
    /\ UNCHANGED nextTimerId
    /\ UNCHANGED <<app, bootBlob>>
    /\ UNCHANGED <<gradeVars, quizVars>>

\* handleConfirmDelete, from the confirm button, shown when confirming: the
\* timer of the ref is cleared, clearAllAnswers is called, the effect on
\* `answers` runs and categorizedAttempts is computed again.
handleConfirmDelete ==
    /\ DeleteButtonShown
    /\ isConfirmingDelete
    /\ IF confirmationTimeoutRef # NoTimer
       THEN /\ timers' = ClearTimeout(timers, confirmationTimeoutRef)
            /\ confirmationTimeoutRef' = NoTimer
       ELSE UNCHANGED <<timers, confirmationTimeoutRef>>
    /\ clearAllAnswers
    /\ Persist(answers')
    /\ categories' = categorizedAttempts(answers', now)
    /\ isConfirmingDelete' = FALSE
    /\ UNCHANGED nextTimerId
    /\ UNCHANGED <<app, bootBlob>>
    /\ UNCHANGED <<gradeVars, quizVars>>

\* RecordsPage unmounts (a link away from it): the cleanup of its effect
\* clears the timer of the ref, and its state is gone.
LeaveRecords ==
    /\ page = "records"
    /\ page' = "none"
    /\ timers' = IF confirmationTimeoutRef # NoTimer
                 THEN ClearTimeout(timers, confirmationTimeoutRef)
                 ELSE timers
    /\ isConfirmingDelete' = FALSE
    /\ confirmationTimeoutRef' = NoTimer
    /\ UNCHANGED <<categories, nextTimerId>>
    /\ UNCHANGED <<shuffledQuestions, userAnswers, questionStates,
                   attemptNumber, route>>
    /\ UNCHANGED <<gradeVars, storeVars, persistVars>>

\* The attempts of the store when the App started.
DeleteEntries ==
    [key : {<<"w1", 1>>, <<"w2", 2>>}, age : {0, 25}, studyTime : {1}]

\* The App runs on a store that earlier runs left, which it has written
\* back, and RecordsPage is not shown.
InitDelete ==
    /\ \E n \in 0..MaxRecords :
          \E entries \in [1..n -> DeleteEntries] :
             answers = Replay(entries, 40 * HoursPerDay)
    /\ now = 40 * HoursPerDay
    /\ appended = [w \in WorkIds, e \in ExcerptIds |-> 0]
    /\ lastOp = [op |-> "none", held |-> 0]
    /\ saved = 0
    /\ storage = PersistedItem(answers)
    /\ app = "running"
    /\ bootBlob = storage
    /\ lastWrite = "ok"
    /\ IdleGrade /\ IdleRecords /\ IdleQuiz

NextDelete ==
    \/ ShowRecords
    \/ handleDeleteClick
    \/ \E id \in Pending : TimerFires(id)
    \/ SecondPasses
    \/ handleConfirmDelete
    \/ LeaveRecords

SpecDelete == InitDelete /\ [][NextDelete]_vars

\* The browser runs its timers: time passes, and a due callback is called.
FairSpecDelete ==
    /\ SpecDelete
    /\ WF_vars(SecondPasses)
    /\ WF_vars(\E id \in Pending : TimerFires(id))

\* ------------------------------------------------------------------ claims

QuestionIndexes == 1..Len(excerpt.questions)
\* The answer submitted to the question at position i, undefined when missing.
Submitted(i) == Lookup(answerData.answers, i - 1)

\* getScore ran on the inputs, and checkAnswerCorrectness did.
Scored == pc \in {"scored", "both"}
Checked == pc \in {"checked", "both"}

\* The verdict on the question at position i is v, whichever grader ran.
VerdictIs(i, v) ==
    /\ Scored => score.results[i].isCorrect = v
    /\ Checked => live[i] = v

Graded == Scored \/ Checked

\* A fill-in-the-blank question with an accepted sequence.
IsFillBlank(q) == q.type = "fill-in-the-blank" /\ IsArray(q.a)

\* The same length, and at every position the trimmed strings are equal.
TrimmedPositionwiseEqual(xs, ys) ==
    /\ Len(xs) = Len(ys)
    /\ \A k \in 1..Len(xs) : Trim(xs[k]) = Trim(ys[k])

\* C1: a submitted sequence to a fill-in-the-blank question is graded correct,
\* by getScore and by checkAnswerCorrectness, iff it has the accepted
\* sequence's length and at every position the trimmed submitted string
\* equals the trimmed accepted string.
C1_FillBlankTrimsBothSides ==
    Graded =>
        \A i \in QuestionIndexes :
            (IsFillBlank(excerpt.questions[i]) /\ IsArray(Submitted(i)))
            => VerdictIs(i, TrimmedPositionwiseEqual(Submitted(i).v,
                                                     excerpt.questions[i].a.v))

\* The fill-in-the-blank questions whose submission is not a sequence of the
\* accepted length.
LengthMismatches ==
    {i \in QuestionIndexes :
        /\ IsFillBlank(excerpt.questions[i])
        /\ ~IsUndefined(Submitted(i))
        /\ \/ ~IsArray(Submitted(i))
           \/ Len(Submitted(i).v) # Len(excerpt.questions[i].a.v)}

\* C2: a submission to a fill-in-the-blank question whose length differs from
\* the accepted sequence's (an empty sequence and a plain string included) is
\* graded incorrect whatever it holds, and adds nothing to the correct count.
C2_LengthMismatchIncorrect ==
    /\ Graded => \A i \in LengthMismatches : VerdictIs(i, FALSE)
    /\ Scored =>
          score.correct <= Len(excerpt.questions) - Cardinality(LengthMismatches)

\* A sequence of two blanks answered with one string, which is the first
\* accepted one, is graded incorrect.
C2_Witness ==
    /\ pc = "scored"
    /\ \E i \in LengthMismatches :
          /\ Len(excerpt.questions[i].a.v) = 2
          /\ IsArray(Submitted(i))
          /\ Len(Submitted(i).v) = 1
          /\ Submitted(i).v[1] = excerpt.questions[i].a.v[1]
          /\ ~score.results[i].isCorrect
          /\ score.correct = 0

\* An extraction question whose accepted answer is a set of alternatives.
IsAlternatives(q) == q.type = "extraction" /\ IsArray(q.a)

\* The trimmed submission equals one of the trimmed alternatives.
MatchesAlternative(u, alternatives) ==
    /\ IsString(u)
    /\ \E k \in 1..Len(alternatives) : Trim(u.v) = Trim(alternatives[k])

\* C3: an extraction question with a set of alternatives is graded correct iff
\* the trimmed submission equals at least one of the trimmed alternatives.
C3_ExtractionAlternatives ==
    Graded =>
        \A i \in QuestionIndexes :
            IsAlternatives(excerpt.questions[i])
            => VerdictIs(i, MatchesAlternative(Submitted(i),
                                               excerpt.questions[i].a.v))

\* A submission with surrounding whitespace that matches the second of two
\* alternatives, and not the first, only after trimming is graded correct.
C3_Witness ==
    /\ pc = "scored"
    /\ \E i \in QuestionIndexes :
          LET q == excerpt.questions[i]
              u == Submitted(i)
          IN /\ IsAlternatives(q)
             /\ Len(q.a.v) = 2
             /\ IsString(u)
             /\ Trim(u.v) # u.v
             /\ Trim(u.v) # Trim(q.a.v[1])
             /\ Trim(u.v) = Trim(q.a.v[2])
             /\ u.v # q.a.v[2]
             /\ score.results[i].isCorrect

Spaces(n) == [k \in 1..n |-> " "]

\* u is s with whitespace added in front, behind, both or neither.
IsPadded(u, s) ==
    \E l \in 0..Len(u), r \in 0..Len(u) : u = Spaces(l) \o s \o Spaces(r)

\* C4: with a single accepted string S, an extraction submission that is S
\* with any leading and trailing whitespace added is graded correct.
C4_PaddedExtractionCorrect ==
    Graded =>
        \A i \in QuestionIndexes :
            LET q == excerpt.questions[i]
                u == Submitted(i)
            IN (q.type = "extraction" /\ IsString(q.a) /\ IsString(u)
                /\ IsPadded(u.v, q.a.v))
               => VerdictIs(i, TRUE)

\* A multiple-choice question with its single correct option.
IsChoice(q) == q.type = "multiple-choice" /\ IsString(q.a)

\* C5: a multiple-choice question is graded correct iff the submission is the
\* correct option exactly, a string equal to it without trimming; one that
\* differs by surrounding whitespace only is incorrect.
C5_ChoiceExact ==
    Scored =>
        \A i \in QuestionIndexes :
            IsChoice(excerpt.questions[i])
            => score.results[i].isCorrect
                 = (/\ IsString(Submitted(i))
                    /\ Submitted(i).v = excerpt.questions[i].a.v)

\* The correct option with whitespace around it is graded incorrect.
C5_Witness ==
    /\ pc = "scored"
    /\ \E i \in QuestionIndexes :
          /\ IsChoice(excerpt.questions[i])
          /\ IsString(Submitted(i))
          /\ excerpt.questions[i].a.v # <<>>
          /\ Trim(excerpt.questions[i].a.v) = excerpt.questions[i].a.v
          /\ Submitted(i).v # excerpt.questions[i].a.v
          /\ Trim(Submitted(i).v) = excerpt.questions[i].a.v
          /\ ~score.results[i].isCorrect

\* The questions whose index has no entry in the answer mapping.
Missing == {i \in QuestionIndexes : (i - 1) \notin DOMAIN answerData.answers}

\* C6: a question with no entry in the answer mapping gets the verdict
\* incorrect and the submitted answer "", and adds nothing to the correct
\* count, whatever its kind.
C6_MissingAnswerIncorrect ==
    Scored =>
        /\ \A i \in Missing :
              /\ score.results[i].isCorrect = FALSE
              /\ score.results[i].userAnswer = Str(<<>>)
        /\ score.correct <= Len(excerpt.questions) - Cardinality(Missing)

\* Two questions, the first answered correctly and the second, which accepts
\* the empty string, not answered: one correct answer is counted.
C6_Witness ==
    /\ pc = "scored"
    /\ Len(excerpt.questions) = 2
    /\ Missing = {2}
    /\ score.results[1].isCorrect
    /\ IsAlternatives(excerpt.questions[2])
    /\ Includes(excerpt.questions[2].a.v, <<>>)
    /\ ~score.results[2].isCorrect
    /\ score.correct = 1

\* C7: getScore returns one verdict per question, in question order; total is
\* the number of questions; correct is the number of verdicts with isCorrect
\* true, so 0 <= correct <= total.
C7_ScoreShape ==
    Scored =>
        /\ Len(score.results) = Len(excerpt.questions)
        /\ score.total = Len(excerpt.questions)
        /\ \A i \in QuestionIndexes :
              /\ score.results[i].correctAnswer = excerpt.questions[i].a
              /\ score.results[i].userAnswer =
                    (IF i \in Missing THEN Str(<<>>) ELSE Submitted(i))
        /\ score.correct =
              Cardinality({i \in QuestionIndexes : score.results[i].isCorrect})
        /\ 0 <= score.correct
        /\ score.correct <= score.total

\* Two questions of different kinds, the first answered wrongly and the
\* second correctly: correct is 1 of 2.
C7_Witness ==
    /\ pc = "scored"
    /\ Len(excerpt.questions) = 2
    /\ excerpt.questions[1].type # excerpt.questions[2].type
    /\ Missing = {}
    /\ ~score.results[1].isCorrect
    /\ score.results[2].isCorrect
    /\ score.correct = 1
    /\ score.total = 2

Pairs == WorkIds \X ExcerptIds

\* C8: getAttemptCount(workId, excerptId) is the number of attempts saved
\* under that pair since the last clearAllAnswers, for every pair: 0 for a
\* pair with none, N after N saves.
C8_AttemptCountIsAppended ==
    \A p \in Pairs : getAttemptCount(p[1], p[2]) = appended[p[1], p[2]]

\* After a clearAllAnswers that removed an attempt, one pair has had two
\* attempts saved and another none.
C8_Witness ==
    /\ saved > TotalAttempts(answers)
    /\ \E p \in Pairs : appended[p[1], p[2]] = 2 /\ getAttemptCount(p[1], p[2]) = 2
    /\ \E p \in Pairs : appended[p[1], p[2]] = 0 /\ getAttemptCount(p[1], p[2]) = 0

\* xs is the beginning of ys.
IsPrefix(xs, ys) == Len(xs) <= Len(ys) /\ SubSeq(ys, 1, Len(xs)) = xs

\* C9: saveAnswers on (workId, excerptId) keeps that pair's stored attempts as
\* they are and where they are, puts the new attempt last, and leaves every
\* other pair's list as it is; no step other than clearAllAnswers removes,
\* edits or reorders a stored attempt.
C9_AppendOnly ==
    [][
        /\ \A w \in WorkIds, e \in ExcerptIds,
              ua \in StoredAnswers, st \in 1..MaxStudyTime :
              saveAnswers(w, e, ua, st) =>
                /\ Attempts(answers', w, e) =
                      Append(Attempts(answers, w, e),
                             [answers |-> ua, studyTime |-> st, timestamp |-> now])
                /\ \A p \in Pairs \ {<<w, e>>} :
                      Attempts(answers', p[1], p[2]) = Attempts(answers, p[1], p[2])
        /\ ~clearAllAnswers =>
              \A p \in Pairs :
                 IsPrefix(Attempts(answers, p[1], p[2]),
                          Attempts(answers', p[1], p[2]))
    ]_vars

\* A saveAnswers has just added a second, later attempt to a pair while
\* another pair held an attempt.
C9_Witness ==
    /\ lastOp.op = "saveAnswers"
    /\ lastOp.held = 2
    /\ \E p \in Pairs, o \in Pairs :
          /\ p # o
          /\ getAttemptCount(p[1], p[2]) = 2
          /\ getAttemptCount(o[1], o[2]) = 1
          /\ Attempts(answers, p[1], p[2])[1].timestamp
               < Attempts(answers, p[1], p[2])[2].timestamp

\* C10: from clearAllAnswers until the next saveAnswers, getAttemptCount is 0
\* for every pair, whatever the store held.
C10_ClearedCountsZero ==
    lastOp.op = "clearAllAnswers" =>
        \A p \in Pairs : getAttemptCount(p[1], p[2]) = 0

\* clearAllAnswers found three attempts stored, and time has passed
\* since.
C10_Witness ==
    /\ lastOp.op = "clearAllAnswers"
    /\ lastOp.held = 3
    /\ now = MaxClock
    /\ \A p \in Pairs : getAttemptCount(p[1], p[2]) = 0

\* RecordsPage is shown, and `categories` is the value of categorizedAttempts.
RecordsShown == page = "records"

\* The attempt that a listed attempt was built from.
AttemptOf(item) ==
    [answers |-> item.answers, studyTime |-> item.studyTime,
     timestamp |-> item.timestamp]

\* The positions of the bucket at position b that list the attempt `a` of the
\* work and excerpt key.
ListedAt(b, workId, excerptKey, a) ==
    {i \in 1..Len(categories[b].data.attempts) :
        LET item == categories[b].data.attempts[i]
        IN /\ item.workId = workId
           /\ IdToString(item.excerptId) = excerptKey
           /\ AttemptOf(item) = a}

\* The buckets that list the attempt.
BucketsWith(workId, excerptKey, a) ==
    {b \in 1..Len(categories) : ListedAt(b, workId, excerptKey, a) # {}}

\* How often the store holds the attempt `a` under the work and excerpt key.
TimesStored(workId, excerptKey, a) ==
    Cardinality({i \in 1..Len(answers[workId][excerptKey]) :
                    answers[workId][excerptKey][i] = a})

\* The attempt is listed in one bucket only, as often as it is stored.
InExactlyOneBucket(workId, excerptKey, a) ==
    \E b \in 1..Len(categories) :
        /\ BucketsWith(workId, excerptKey, a) = {b}
        /\ Cardinality(ListedAt(b, workId, excerptKey, a))
              = TimesStored(workId, excerptKey, a)

\* The content has the work and the excerpt.
InContent(workId, excerptKey) ==
    \E w \in 1..Len(works) :
        /\ works[w].id = workId
        /\ \E e \in 1..Len(works[w].excerpts) :
              IdToString(works[w].excerpts[e].id) = excerptKey

\* C11 as claimed: every attempt stored under any work and excerpt identifier
\* is listed in exactly one bucket of the recency categorization.
C11_EveryAttemptInOneBucket ==
    RecordsShown =>
        \A workId \in DOMAIN answers :
            \A excerptKey \in DOMAIN answers[workId] :
                \A i \in 1..Len(answers[workId][excerptKey]) :
                    InExactlyOneBucket(workId, excerptKey,
                                       answers[workId][excerptKey][i])

\* C11: every attempt stored under a work and excerpt that the content has is
\* listed in exactly one bucket of the recency categorization, as often as it
\* is stored, and no bucket lists anything else: an attempt stored under a
\* work or excerpt that the content does not have is in no bucket.
C11_ContentAttemptsInOneBucket ==
    RecordsShown =>
        /\ \A workId \in DOMAIN answers :
              \A excerptKey \in DOMAIN answers[workId] :
                 \A i \in 1..Len(answers[workId][excerptKey]) :
                    LET a == answers[workId][excerptKey][i]
                    IN IF InContent(workId, excerptKey)
                       THEN InExactlyOneBucket(workId, excerptKey, a)
                       ELSE BucketsWith(workId, excerptKey, a) = {}
        /\ \A b \in 1..Len(categories) :
              \A i \in 1..Len(categories[b].data.attempts) :
                 LET item == categories[b].data.attempts[i]
                     key == IdToString(item.excerptId)
                 IN /\ item.workId \in DOMAIN answers
                    /\ key \in DOMAIN answers[item.workId]
                    /\ TimesStored(item.workId, key, AttemptOf(item)) > 0

\* The attempt of an excerpt of the content is listed once, in the only
\* bucket, and the attempt of a removed work is stored and listed nowhere.
C11_Witness ==
    /\ RecordsShown
    /\ \E workId \in RemovedWorkIds :
          /\ workId \in DOMAIN answers
          /\ \A b \in 1..Len(categories) :
                \A i \in 1..Len(categories[b].data.attempts) :
                   categories[b].data.attempts[i].workId # workId
    /\ "w1" \in DOMAIN answers
    /\ Len(categories) = 1
    /\ Len(categories[1].data.attempts) = 1
    /\ InExactlyOneBucket("w1", "1", answers["w1"]["1"][1])

\* How long before `now` the listed attempt was saved.
AgeOf(item) == now - item.timestamp

\* Every listed attempt of the age is in the bucket of the key.
AgedIn(age, key) ==
    \A b \in 1..Len(categories) :
        \A i \in 1..Len(categories[b].data.attempts) :
            AgeOf(categories[b].data.attempts[i]) = age
            => categories[b].key = key

DayStart == (now \div HoursPerDay) * HoursPerDay

\* The bucket that C13 gives a timestamp.
BucketByDay(t) ==
    IF t >= DayStart THEN "today"
    ELSE IF t >= DayStart - HoursPerDay THEN "yesterday"
    ELSE IF t >= DayStart - 7 * HoursPerDay THEN "sevenDays"
    ELSE "older"

\* C13: with D the start of the current calendar day, an attempt is in today
\* iff its timestamp t >= D, in yesterday iff D - 1 day <= t < D, in the last
\* 7 days iff D - 7 days <= t < D - 1 day, and in older whenever
\* t < D - 7 days, those between 8 and 30 days old included: the bucket of
\* the last 30 days is never populated.
C13_BucketsByDayStart ==
    RecordsShown =>
        \A b \in 1..Len(categories) :
            /\ categories[b].key # "thirtyDays"
            /\ \A i \in 1..Len(categories[b].data.attempts) :
                  categories[b].key
                     = BucketByDay(categories[b].data.attempts[i].timestamp)

\* An attempt 10 days old and one older than 30 days are both listed under
\* older, the only bucket.
C13_Witness ==
    /\ RecordsShown
    /\ Len(categories) = 1
    /\ categories[1].key = "older"
    /\ Len(categories[1].data.attempts) = 2
    /\ AgeOf(categories[1].data.attempts[1]) = 10 * HoursPerDay
    /\ AgeOf(categories[1].data.attempts[2]) > 30 * HoursPerDay + HoursPerDay

\* The sum of studyTime over the attempts.
RECURSIVE SumStudyTime(_)
SumStudyTime(attempts) ==
    IF attempts = <<>> THEN 0
    ELSE Head(attempts).studyTime + SumStudyTime(Tail(attempts))

\* C14: the total time reported for a bucket is the sum of studyTime over the
\* attempts placed in that bucket.
C14_TotalTimeIsSum ==
    RecordsShown =>
        \A b \in 1..Len(categories) :
            categories[b].data.totalTime
               = SumStudyTime(categories[b].data.attempts)

\* A bucket of two attempts, of 1 and of 2 seconds, reports 3 seconds.
C14_Witness ==
    /\ RecordsShown
    /\ \E b \in 1..Len(categories) :
          /\ Len(categories[b].data.attempts) = 2
          /\ categories[b].data.attempts[1].studyTime = 1
          /\ categories[b].data.attempts[2].studyTime = 2
          /\ categories[b].data.totalTime = 3

\* The place of the key in the order today, yesterday, sevenDays, thirtyDays,
\* older.
KeyPlace(key) == CHOOSE k \in 1..Len(CategoryKeys) : CategoryKeys[k] = key

\* C15: the buckets are listed in the order today, yesterday, last 7 days,
\* last 30 days, older; a bucket without attempts is not listed; and in every
\* bucket the attempts are in non-increasing order of timestamp, whatever
\* their works and excerpts.
C15_BucketOrder ==
    RecordsShown =>
        /\ \A b \in 1..Len(categories) :
              /\ Len(categories[b].data.attempts) > 0
              /\ \A c \in 1..Len(categories) :
                    b < c => KeyPlace(categories[b].key)
                                < KeyPlace(categories[c].key)
              /\ \A i, j \in 1..Len(categories[b].data.attempts) :
                    i < j => categories[b].data.attempts[i].timestamp
                                >= categories[b].data.attempts[j].timestamp

\* In a bucket the newer attempt of the work that the store lists second
\* comes before the older attempt of the work that it lists first.
C15_Witness ==
    /\ RecordsShown
    /\ \E b \in 1..Len(categories) :
          /\ Len(categories[b].data.attempts) = 2
          /\ categories[b].data.attempts[1].workId = "w2"
          /\ categories[b].data.attempts[2].workId = "w1"
          /\ categories[b].data.attempts[1].timestamp
                > categories[b].data.attempts[2].timestamp

\* The last operation on the record store was an append or the clearing.
AfterStoreOperation ==
    app = "running" /\ lastOp.op \in {"saveAnswers", "clearAllAnswers"}

\* C16 as claimed: after an append or the clearing, and until the next
\* operation, the item under the persistence key is the serialization of the
\* whole in-memory store.
C16_BlobIsWholeStore ==
    AfterStoreOperation => storage = Item(JsonStringify(answers))

\* C16: an append or the clearing leaves the item under the persistence key
\* as the serialization of the whole in-memory store when the write to
\* localStorage succeeds, and as it was when the write throws; nothing else
\* changes the item once the App runs.
C16_BlobIsWholeStoreOrKept ==
    [][/\ (SaveAndPersist \/ ClearAndPersist) =>
            IF lastWrite' = "ok"
            THEN storage' = Item(JsonStringify(answers'))
            ELSE storage' = storage
       /\ TickPersist => storage' = storage]_vars

\* After a second append, under another work, the item is the text of the
\* store with both works; and after a write that failed and one that did not
\* the item again holds everything.
C16_Witness ==
    /\ AfterStoreOperation
    /\ lastOp.op = "saveAnswers"
    /\ lastWrite = "ok"
    /\ DOMAIN answers = {"w1", "w2"}
    /\ getAttemptCount("w1", 1) = 2
    /\ storage = Item(JsonStringify(answers))
    /\ storage.text # "{}"

\* The item is absent, or is no JSON text, or is the JSON text of something
\* that is not a store.
Unreadable(item) ==
    \/ ~item.present
    \/ ~JsonParse(item.text).ok
    \/ IsJsonNull(JsonParse(item.text).value)

\* C17: when the App starts on an item that is absent, corrupt or unreadable
\* (no JSON text, or not the text of a store), the store is initialised
\* empty, no error propagates, and getAttemptCount and appendAttempt work
\* from then on as they do on an empty store.
C17_UnreadableItemGivesEmptyStore ==
    (app # "boot" /\ Unreadable(bootBlob)) =>
        /\ app = "running"
        /\ lastOp.op = "mount" => answers = EmptyObject
        /\ \A workId \in WorkIds, excerptId \in ExcerptIds :
              getAttemptCount(workId, excerptId) = appended[workId, excerptId]

\* The questions of the session that are in the state correct.
CorrectQuestions == {i \in DisplayIndexes : questionStates[i] = "correct"}

\* The session is complete: graded at least once, and every question
\* correct or three gradings done.
SessionComplete ==
    /\ attemptNumber >= 1
    /\ \/ CorrectQuestions = DisplayIndexes
       \/ attemptNumber >= 3

\* C18: saveAnswers is called only when the session is complete, that is
\* after at least one grading and with every question correct or three
\* gradings done; answering and grading alone append no attempt to the store.
C18_SavedOnlyAtCompletion ==
    [][/\ saved' # saved => SessionComplete
       /\ (userAnswers' # userAnswers \/ attemptNumber' # attemptNumber)
             => (answers' = answers /\ saved' = saved)]_vars

\* The attempt of a session was saved after three gradings that left a
\* question incorrect.
C18_Witness ==
    /\ page = "result"
    /\ saved = 1
    /\ getAttemptCount(RoutedWork.id, RoutedExcerpt.id) = 1
    /\ attemptNumber = 3
    /\ CorrectQuestions # DisplayIndexes

\* C19: getScore over the attempt that handleFinishQuiz stored counts as
\* correct as many questions as were in the state correct at the finish,
\* whatever the answers edited and the gradings before it.
C19_StoredScoreIsLiveResult ==
    page = "result" => score.correct = Cardinality(CorrectQuestions)

\* C20: for a question of any kind and any defined submitted answer,
\* checkAnswerCorrectness gives the verdict that getScore gives the same
\* question and answer as isCorrect.
C20_LiveVerdictIsScoreVerdict ==
    pc = "both" =>
        \A i \in QuestionIndexes :
            ~IsUndefined(Submitted(i))
            => live[i] = score.results[i].isCorrect

\* An extraction answered with the accepted string and a space before it is
\* correct for both graders.
C20_Witness ==
    /\ pc = "both"
    /\ \E i \in QuestionIndexes :
          /\ excerpt.questions[i].type = "extraction"
          /\ excerpt.questions[i].a = Str(<<"a">>)
          /\ Submitted(i) = Str(<<" ", "a">>)
          /\ live[i] /\ score.results[i].isCorrect

\* The answer of the question at the display index is empty: the empty
\* string, or for a fill-in-the-blank as many empty strings as the accepted
\* sequence has.
AnswerIsEmpty(index) ==
    LET q == shuffledQuestions[index + 1]
    IN IF q.type = "fill-in-the-blank"
       THEN /\ IsArray(userAnswers[index])
            /\ Len(userAnswers[index].v) = Len(q.a.v)
            /\ \A k \in 1..Len(q.a.v) : userAnswers[index].v[k] = <<>>
       ELSE userAnswers[index] = Str(<<>>)

\* C21: in a quiz session a question in the state correct stays correct, and
\* its answer is neither edited nor reset, in every later step; and a grading
\* resets to empty the answers of the questions that it grades incorrect (as
\* many empty strings as the accepted sequence has, for a fill-in-the-blank)
\* and no other answer.
C21_CorrectStaysCorrect ==
    [][\A index \in DisplayIndexes :
          /\ questionStates[index] = "correct" =>
                /\ questionStates'[index] = "correct"
                /\ userAnswers'[index] = userAnswers[index]
          /\ attemptNumber' # attemptNumber =>
                IF questionStates'[index] = "incorrect"
                THEN AnswerIsEmpty(index)'
                ELSE userAnswers'[index] = userAnswers[index]]_vars

\* After two gradings one question is correct and keeps its answer, and the
\* other is incorrect and has the empty answer.
C21_Witness ==
    /\ page = "quiz"
    /\ attemptNumber = 2
    /\ \E i, j \in DisplayIndexes :
          /\ questionStates[i] = "correct"
          /\ ~AnswerIsEmpty(i)
          /\ questionStates[j] = "incorrect"
          /\ AnswerIsEmpty(j)

\* The answer of the question at the display index is not blank: a string
\* with more than whitespace, or for a fill-in-the-blank such a string in
\* every blank.
AnswerIsNonBlank(index) ==
    LET answer == userAnswers[index]
    IN IF shuffledQuestions[index + 1].type = "fill-in-the-blank"
       THEN /\ IsArray(answer)
            /\ \A k \in 1..Len(answer.v) :
                  \E c \in 1..Len(answer.v[k]) :
                     answer.v[k][c] \notin Whitespace
       ELSE /\ IsString(answer)
            /\ \E c \in 1..Len(answer.v) : answer.v[c] \notin Whitespace

\* C22: a quiz session is graded at most three times: attemptNumber starts at
\* 0, never exceeds 3, and changes only by a grading, which adds exactly 1
\* and happens only when the session is not finished (it has not been graded,
\* or some question is not correct and fewer than three gradings are done)
\* and every question that is not correct has a non-blank answer.
C22_AtMostThreeGradings ==
    /\ attemptNumber = 0
    /\ [](attemptNumber \in 0..3)
    /\ [][attemptNumber' # attemptNumber =>
             /\ attemptNumber' = attemptNumber + 1
             /\ ~SessionComplete
             /\ \A index \in DisplayIndexes :
                   questionStates[index] # "correct"
                   => AnswerIsNonBlank(index)]_vars

\* After the third grading a question is incorrect and answered again, and
\* the session is still on the quiz page: it can be finished, not graded.
C22_Witness ==
    /\ page = "quiz"
    /\ attemptNumber = 3
    /\ \E index \in DisplayIndexes :
          /\ questionStates[index] = "incorrect"
          /\ AnswerIsNonBlank(index)
    /\ \A index \in DisplayIndexes :
          questionStates[index] # "correct" => AnswerIsNonBlank(index)
    /\ ~ENABLED handleGradeAnswers


\* A step that clears the record store.
StoreCleared == answers' # answers \/ lastOp' # lastOp

\* C23: clearing the record store needs two steps.  The store is cleared
\* only by a confirm click, made while the button is confirming; the
\* confirming state is entered only by a click that sets one timer of
\* ConfirmDelay seconds, and is left only by that timer firing when due, by
\* the confirm click or by leaving the page, and it is always left; at most
\* one timer is pending at any time, and a pending timer is the one of the
\* ref, while confirming; after a confirm click no timer is pending and the
\* button is not confirming.
C23_TwoStepDelete ==
    /\ [](/\ Cardinality(Pending) <= 1
          /\ Pending # {} =>
                /\ isConfirmingDelete
                /\ Pending = {confirmationTimeoutRef}
                /\ timers[confirmationTimeoutRef] \in 0..ConfirmDelay)
    /\ [][/\ StoreCleared =>
                /\ DeleteButtonShown /\ isConfirmingDelete
                /\ lastOp'.op = "clearAllAnswers"
                /\ answers' = ClearedStore
                /\ Pending' = {}
                /\ ~isConfirmingDelete'
                /\ confirmationTimeoutRef' = NoTimer
          /\ (~isConfirmingDelete /\ isConfirmingDelete') =>
                /\ DeleteButtonShown
                /\ Pending' = {nextTimerId}
                /\ timers'[nextTimerId] = ConfirmDelay
                /\ confirmationTimeoutRef' = nextTimerId
                /\ UNCHANGED answers
          /\ (isConfirmingDelete /\ ~isConfirmingDelete') =>
                \/ /\ Pending = {confirmationTimeoutRef}
                   /\ timers[confirmationTimeoutRef] = 0
                   /\ Pending' = {}
                   /\ UNCHANGED answers
                \/ StoreCleared
                \/ page' # "records" /\ Pending' = {}]_vars
    /\ (isConfirmingDelete ~> ~isConfirmingDelete)

\* The first confirmation ran out after ConfirmDelay seconds, and the second
\* was confirmed: the store is cleared and no timer is pending.
C23_Witness ==
    /\ page = "records"
    /\ lastOp.op = "clearAllAnswers"
    /\ lastOp.held > 0
    /\ nextTimerId = 3
    /\ ~isConfirmingDelete
    /\ Pending = {}

====
